---- MODULE Spec2Model ----
(***************************************************************************)
(* Position lifecycle of rsi_divergence_bot.py: the Strategy Cycle         *)
(* (bot_logic, main thread) and the Fast Stop Poller                       *)
(* (trailing_stop_checker, daemon thread) sharing one persisted position   *)
(* record.  The two functions run in different threads without a lock, so  *)
(* each store call and each venue call is one atomic step and the steps of *)
(* the two drivers interleave freely.                                      *)
(*                                                                         *)
(* Prices, ATR values and stop levels are integers in units of 1e-4.       *)
(* Amounts are integers in units of 10^-amount_decimals.                   *)
(***************************************************************************)
EXTENDS Integers, FiniteSets, Sequences, TLC

\* ---------------------------------------------------------------- bounds
MaxEntries == 1
MaxCloseReqs == 2

\* ------------------------------------------------------------- constants
Unit == 10000
NONE == -1
ORDER_SIZE_USD == 1400
ATR_MULTIPLIER_NUM == 11
ATR_MULTIPLIER_DEN == 10
PROFIT_TARGET_PCT_NUM == 1
PROFIT_TARGET_PCT_DEN == 100
STOP_LOSS_PCT_NUM == 8
STOP_LOSS_PCT_DEN == 1000
SL_ORDER_ID == 1
TP_ORDER_ID == 2

\* Observable inputs: last/close prices, ATR of the latest candle, the
\* divergence flags of the latest candle, and the market metadata.
Prices == {1000000, 1038000, 1050000}
Atrs == {10000}
Signals == {"bullish", "bearish", "none"}
\* Each market carries the prices its symbol trades at: a symbol near 100
\* with a fine amount step, the same with a large minimum amount, and a
\* symbol near 1000 with amount step 1 and a large minimum notional.
\* At 700 and 702 the percentage term of the trail distance exceeds the
\* volatility term, so the candidate stop of a short moves with the price.
HighPrices == {7000000, 7020000, 10000000}
Markets ==
  { [amount_precision |-> 1000, price_precision |-> 10,
     min_amount |-> 1, min_notional |-> 5, prices |-> Prices],
    [amount_precision |-> 1000, price_precision |-> 10,
     min_amount |-> 200, min_notional |-> 5, prices |-> Prices],
    [amount_precision |-> 10000, price_precision |-> 1000,
     min_amount |-> 1, min_notional |-> 1100, prices |-> HighPrices] }

\* the position the venue holds for SYMBOL when the program starts: flat,
\* or a position somebody else opened
StartPositions == {0, 50}

Drivers == {"cycle", "poller"}

VARIABLES
  store,      \* the persisted position record (state_manager_rsidiv)
  market,     \* market metadata loaded at startup
  venue_pos,  \* signed position amount the venue holds for SYMBOL
  pc,         \* position of each driver inside its tick
  state,      \* each driver's local `state` dict
  exch_size,  \* each driver's local exch_size
  entry,      \* bot_logic's entry locals (price, atr_val, pos_side, amount)
  entries,    \* history: number of accepted entry orders
  closeReqs,  \* history: close market orders requested since the last entry
  closers,    \* history: drivers that set closing=true since the last entry
  last_write, \* history: the kind of the latest write to the store
  acts,       \* history: venue orders/cancels each driver issued in its tick
  wrote,      \* history: whether each driver wrote the store in its tick
  out,        \* history: how each driver's latest tick ended
  hit         \* history: the price each driver's tick decided on, and the
              \* exit it logged ("trailing", "target" or "none")

vars == <<store, market, venue_pos, pc, state, exch_size, entry,
          entries, closeReqs, closers, last_write, acts, wrote, out, hit>>

\* ------------------------------------------------------ pure arithmetic
Max(a, b) == IF a >= b THEN a ELSE b
Min(a, b) == IF a <= b THEN a ELSE b
Abs(a) == IF a >= 0 THEN a ELSE -a

RECURSIVE Pow10(_)
Pow10(n) == IF n = 0 THEN 1 ELSE 10 * Pow10(n - 1)

\* round half to even of n/d for n >= 0, d > 0
RoundDiv(n, d) ==
  LET q == n \div d
      r == n % d
  IN  IF 2 * r < d THEN q
      ELSE IF 2 * r > d THEN q + 1
      ELSE IF q % 2 = 0 THEN q ELSE q + 1

RECURSIVE TrailingZeros(_)
TrailingZeros(n) == IF n % 10 = 0 THEN 1 + TrailingZeros(n \div 10) ELSE 0

\* step is a positive number in units of 1e-4
step_to_decimals(step) ==
  IF step >= Unit THEN 0 ELSE 4 - TrailingZeros(step)

\* float(f"{x:.{decimals}f}") for x in units of 1e-4
FormatPrice(x, decimals) ==
  LET q == Pow10(4 - decimals) IN q * RoundDiv(x, q)

\* faulty variant of TrailDist: the volatility term is left out
TrailDist_PctOnly(atr, price) ==
  (STOP_LOSS_PCT_NUM * price) \div STOP_LOSS_PCT_DEN

\* max(ATR_MULTIPLIER * atr, price * STOP_LOSS_PCT)
TrailDist(atr, price) ==
  Max((ATR_MULTIPLIER_NUM * atr) \div ATR_MULTIPLIER_DEN,
      (STOP_LOSS_PCT_NUM * price) \div STOP_LOSS_PCT_DEN)

\* ------------------------------------------------------- position store
InactiveState ==
  [active_trade |-> FALSE, position_side |-> "none", entry_price |-> NONE,
   stop_loss_price |-> NONE, target_price |-> NONE, highest |-> NONE,
   lowest |-> NONE, trailing_stop_level |-> NONE, sl_order_id |-> NONE,
   tp_order_id |-> NONE, atr_at_entry |-> NONE, closing |-> FALSE]

NoHit == [price |-> NONE, reason |-> "none"]

NoEntry == [price |-> NONE, atr_val |-> NONE, pos_side |-> "none", amount |-> 0]

\* ------------------------------------------------------ tick bookkeeping
Goto(d, l) == pc' = [pc EXCEPT ![d] = l] /\ UNCHANGED <<out, hit>>
\* the exit decision of a tick: where it goes on, and what it logs
Decided(d, l, price, reason) ==
  /\ pc' = [pc EXCEPT ![d] = l]
  /\ hit' = [hit EXCEPT ![d] = [price |-> price, reason |-> reason]]
  /\ UNCHANGED out
Locals == UNCHANGED <<state, exch_size>>
\* faulty variant of Finish: the exception of a failed venue call is not
\* caught and ends the driver for good
Finish_Escapes(d, o) ==
  /\ pc' = [pc EXCEPT ![d] =
              IF o \in {"error", "entry_error", "close_failed",
                        "close_rejected"}
              THEN "dead" ELSE "idle"]
  /\ out' = [out EXCEPT ![d] = o]
  /\ state' = [state EXCEPT ![d] = InactiveState]
  /\ exch_size' = [exch_size EXCEPT ![d] = 0]
  /\ hit' = [hit EXCEPT ![d] = NoHit]

\* a tick returns: its locals are dead
Finish(d, o) ==
  /\ pc' = [pc EXCEPT ![d] = "idle"]
  /\ out' = [out EXCEPT ![d] = o]
  /\ state' = [state EXCEPT ![d] = InactiveState]
  /\ exch_size' = [exch_size EXCEPT ![d] = 0]
  /\ hit' = [hit EXCEPT ![d] = NoHit]
Did(d, a) == acts' = [acts EXCEPT ![d] = @ \cup {a}]
Wrote(d, kind) == wrote' = [wrote EXCEPT ![d] = TRUE] /\ last_write' = kind

\* state_manager_rsidiv: get_state / set_state / reset_state, one atomic
\* load or save of the whole record per call
get_state == store
set_state(s) == store' = s
reset_state == store' = InactiveState

\* ----------------------------------------------------------- the venue
\* A reduce-only market order of `amount` on `side`, seen by the venue
\* holding position `pos`: the new position when the order reduces it.
Reducible(pos, side, amount) ==
  /\ amount > 0
  /\ \/ side = "sell" /\ pos > 0
     \/ side = "buy" /\ pos < 0

Reduced(pos, side, amount) ==
  IF side = "sell" THEN pos - Min(amount, pos) ELSE pos + Min(amount, -pos)

\* faulty variant of BotExit: the candidate stop replaces the stored level
\* whether or not it is better
BotExit_NoRatchet(s, price, atr_val) ==
  LET atr_at_entry == s.atr_at_entry
      is_long == s.position_side = "long"
      trail_dist == TrailDist(atr_at_entry, price)
      highest == IF is_long /\ (s.highest = NONE \/ price > s.highest)
                 THEN price ELSE s.highest
      lowest == IF ~is_long /\ (s.lowest = NONE \/ price < s.lowest)
                THEN price ELSE s.lowest
      tsl == IF is_long THEN highest - trail_dist ELSE lowest + trail_dist
      close_reason ==
        IF is_long
        THEN IF price <= tsl THEN "trailing"
             ELSE IF price >= s.target_price THEN "target" ELSE "none"
        ELSE IF price >= tsl THEN "trailing"
             ELSE IF price <= s.target_price THEN "target" ELSE "none"
  IN  [highest |-> highest, lowest |-> lowest, trailing_stop_level |-> tsl,
       atr_at_entry |-> atr_at_entry, close_reason |-> close_reason]

\* faulty variant of BotExit: the profit target is tested before the
\* trailing stop
BotExit_TargetFirst(s, price, atr_val) ==
  LET atr_at_entry == s.atr_at_entry
      is_long == s.position_side = "long"
      trail_dist == TrailDist(atr_at_entry, price)
      highest == IF is_long /\ (s.highest = NONE \/ price > s.highest)
                 THEN price ELSE s.highest
      lowest == IF ~is_long /\ (s.lowest = NONE \/ price < s.lowest)
                THEN price ELSE s.lowest
      new_trailing_stop == IF is_long THEN highest - trail_dist
                           ELSE lowest + trail_dist
      tsl == IF is_long
             THEN IF s.trailing_stop_level = NONE
                     \/ new_trailing_stop > s.trailing_stop_level
                  THEN new_trailing_stop ELSE s.trailing_stop_level
             ELSE IF s.trailing_stop_level = NONE
                     \/ new_trailing_stop < s.trailing_stop_level
                  THEN new_trailing_stop ELSE s.trailing_stop_level
      close_reason ==
        IF is_long
        THEN IF price >= s.target_price THEN "target"
             ELSE IF price <= tsl THEN "trailing" ELSE "none"
        ELSE IF price <= s.target_price THEN "target"
             ELSE IF price >= tsl THEN "trailing" ELSE "none"
  IN  [highest |-> highest, lowest |-> lowest, trailing_stop_level |-> tsl,
       atr_at_entry |-> atr_at_entry, close_reason |-> close_reason]

\* ------------------------------------------------- exit decision, cycle
\* bot_logic lines 145-181: running extremum, candidate stop, ratchet, and
\* the close reason ("trailing" before "target").
BotExit(s, price, atr_val) ==
  LET atr_at_entry == s.atr_at_entry
      is_long == s.position_side = "long"
      trail_dist == TrailDist(atr_at_entry, price)
      highest == IF is_long /\ (s.highest = NONE \/ price > s.highest)
                 THEN price ELSE s.highest
      lowest == IF ~is_long /\ (s.lowest = NONE \/ price < s.lowest)
                THEN price ELSE s.lowest
      new_trailing_stop == IF is_long THEN highest - trail_dist
                           ELSE lowest + trail_dist
      tsl == IF is_long
             THEN IF s.trailing_stop_level = NONE
                     \/ new_trailing_stop > s.trailing_stop_level
                  THEN new_trailing_stop ELSE s.trailing_stop_level
             ELSE IF s.trailing_stop_level = NONE
                     \/ new_trailing_stop < s.trailing_stop_level
                  THEN new_trailing_stop ELSE s.trailing_stop_level
      close_reason ==
        IF is_long
        THEN IF price <= tsl THEN "trailing"
             ELSE IF price >= s.target_price THEN "target" ELSE "none"
        ELSE IF price >= tsl THEN "trailing"
             ELSE IF price <= s.target_price THEN "target" ELSE "none"
  IN  [highest |-> highest, lowest |-> lowest, trailing_stop_level |-> tsl,
       atr_at_entry |-> atr_at_entry, close_reason |-> close_reason]

\* bot_logic lines 206-210: the record written on the hold path
BotHoldState(s, x) ==
  [s EXCEPT !.highest = x.highest, !.lowest = x.lowest,
            !.trailing_stop_level = x.trailing_stop_level,
            !.atr_at_entry = x.atr_at_entry]

\* ------------------------------------------------------- entry sizing
amount_decimals(m) == step_to_decimals(m.amount_precision)
price_decimals(m) == step_to_decimals(m.price_precision)

\* lines 233-236: amount in units of 10^-amount_decimals
EntryAmount(m, price) ==
  LET order_size_tenths == Max(10 * ORDER_SIZE_USD, 11 * m.min_notional)
  IN  RoundDiv(order_size_tenths * Pow10(amount_decimals(m)) * (Unit \div 10),
               price)

\* faulty variant of TooSmall: the minimum-notional test is left out
TooSmall_AmountOnly(m, amount, price) ==
  amount < m.min_amount * Pow10(amount_decimals(m))

\* line 237
TooSmall(m, amount, price) ==
  \/ amount < m.min_amount * Pow10(amount_decimals(m))
  \/ amount * price < m.min_notional * Pow10(amount_decimals(m)) * Unit

\* lines 247-292: the record persisted after a successful entry
NewState(m, e) ==
  LET dist == TrailDist(e.atr_val, e.price)
      long == e.pos_side = "long"
      stop_loss_price == IF long THEN e.price - dist ELSE e.price + dist
      target_price ==
        IF long
        THEN e.price + (PROFIT_TARGET_PCT_NUM * e.price) \div PROFIT_TARGET_PCT_DEN
        ELSE e.price - (PROFIT_TARGET_PCT_NUM * e.price) \div PROFIT_TARGET_PCT_DEN
      trailing_stop_level == IF long THEN e.price - dist ELSE e.price + dist
  IN  [active_trade |-> TRUE, position_side |-> e.pos_side,
       entry_price |-> e.price,
       stop_loss_price |-> FormatPrice(stop_loss_price, price_decimals(m)),
       target_price |-> FormatPrice(target_price, price_decimals(m)),
       highest |-> IF long THEN e.price ELSE NONE,
       lowest |-> IF long THEN NONE ELSE e.price,
       trailing_stop_level |->
         FormatPrice(trailing_stop_level, price_decimals(m)),
       sl_order_id |-> SL_ORDER_ID, tp_order_id |-> TP_ORDER_ID,
       atr_at_entry |-> e.atr_val, closing |-> FALSE]

\* faulty variant of BotStart: the closing flag of the record is not looked at
BotStart_NoSkip ==
  /\ pc["cycle"] = "idle"
  /\ acts' = [acts EXCEPT !["cycle"] = {}]
  /\ wrote' = [wrote EXCEPT !["cycle"] = FALSE]
  /\ state' = [state EXCEPT !["cycle"] = get_state]
  /\ pc' = [pc EXCEPT !["cycle"] = "fetch_positions"]
  /\ out' = [out EXCEPT !["cycle"] = "running"]
  /\ UNCHANGED <<hit, exch_size>>
  /\ UNCHANGED <<store, last_write, market, venue_pos, entry, entries, closeReqs, closers>>

\* ------------------------------------------------ Strategy Cycle steps
\* lines 110-113: read the record; skip the cycle when closing
BotStart ==
  /\ pc["cycle"] = "idle"
  /\ acts' = [acts EXCEPT !["cycle"] = {}]
  /\ wrote' = [wrote EXCEPT !["cycle"] = FALSE]
  /\ IF get_state.closing
     THEN Finish("cycle", "skip_closing")
     ELSE /\ state' = [state EXCEPT !["cycle"] = get_state]
          /\ pc' = [pc EXCEPT !["cycle"] = "fetch_positions"]
          /\ out' = [out EXCEPT !["cycle"] = "running"]
          /\ UNCHANGED hit
          /\ UNCHANGED exch_size
  /\ UNCHANGED <<store, last_write, market, venue_pos, entry, entries, closeReqs, closers>>

\* faulty variant of BotReconcile: a foreign venue position does not end
\* the cycle
BotReconcile_Proceeds ==
  IF state["cycle"].active_trade /\ venue_pos = 0
  THEN /\ Goto("cycle", "recon_reset")
       /\ exch_size' = [exch_size EXCEPT !["cycle"] = venue_pos]
       /\ UNCHANGED state
  ELSE /\ Goto("cycle", "candles")
       /\ exch_size' = [exch_size EXCEPT !["cycle"] = venue_pos]
       /\ UNCHANGED state

\* lines 126-132: state reconciliation against the fetched venue position
BotReconcile ==
  IF state["cycle"].active_trade /\ venue_pos = 0
  THEN /\ Goto("cycle", "recon_reset")
       /\ exch_size' = [exch_size EXCEPT !["cycle"] = venue_pos]
       /\ UNCHANGED state
  ELSE IF ~state["cycle"].active_trade /\ venue_pos # 0
  THEN Finish("cycle", "manual")
  ELSE /\ Goto("cycle", "candles")
       /\ exch_size' = [exch_size EXCEPT !["cycle"] = venue_pos]
       /\ UNCHANGED state

\* lines 116-132: fetch the venue position and reconcile
BotFetchPositions ==
  /\ pc["cycle"] = "fetch_positions"
  /\ \/ Finish("cycle", "error")
     \/ BotReconcile
  /\ UNCHANGED <<store, last_write, market, venue_pos, entry, entries, closeReqs, closers,
                 acts, wrote>>

\* faulty variant of BotReconReset: the local record is written back
\* instead of the reset
BotReconReset_WriteBack ==
  /\ pc["cycle"] = "recon_reset"
  /\ set_state(state["cycle"])
  /\ Wrote("cycle", "reset_recon")
  /\ Goto("cycle", "recon_get")
  /\ Locals
  /\ UNCHANGED <<market, venue_pos, entry, entries, closeReqs, closers, acts>>

\* line 128: reset_state()
BotReconReset ==
  /\ pc["cycle"] = "recon_reset"
  /\ reset_state
  /\ Wrote("cycle", "reset_recon")
  /\ Goto("cycle", "recon_get")
  /\ Locals
  /\ UNCHANGED <<market, venue_pos, entry, entries, closeReqs, closers, acts>>

\* line 129: state = get_state()
BotReconGet ==
  /\ pc["cycle"] = "recon_get"
  /\ state' = [state EXCEPT !["cycle"] = get_state]
  /\ Goto("cycle", "candles")
  /\ UNCHANGED <<store, last_write, market, venue_pos, exch_size, entry, entries,
                 closeReqs, closers, acts, wrote>>

\* lines 134-181 and 217-241: candles, indicators, then the exit decision
\* of an active record or the entry decision of an inactive one (no more
\* than MaxEntries divergence signals are acted on)
BotDecide(price, atr_val, signal) ==
  IF state["cycle"].active_trade
  THEN /\ IF BotExit(state["cycle"], price, atr_val).close_reason # "none"
          THEN /\ Decided("cycle", "set_closing", price,
                          BotExit(state["cycle"], price, atr_val).close_reason)
               /\ Locals
          ELSE /\ Decided("cycle", "hold", price, "none")
               /\ state' = [state EXCEPT !["cycle"] =
                     BotHoldState(@, BotExit(@, price, atr_val))]
               /\ UNCHANGED exch_size
       /\ UNCHANGED entry
  ELSE IF signal = "none" \/ entries >= MaxEntries
       THEN Finish("cycle", "no_signal") /\ UNCHANGED entry
       ELSE IF TooSmall(market, EntryAmount(market, price), price)
       THEN Finish("cycle", "too_small") /\ UNCHANGED entry
       ELSE /\ Goto("cycle", "entry_order")
            /\ Locals
            /\ entry' = [price |-> price, atr_val |-> atr_val,
                         pos_side |-> IF signal = "bullish" THEN "long"
                                      ELSE "short",
                         amount |-> EntryAmount(market, price)]

BotCandles ==
  /\ pc["cycle"] = "candles"
  /\ \/ /\ Finish("cycle", "error")
        /\ UNCHANGED entry
     \/ \E price \in market.prices, atr_val \in Atrs, signal \in Signals :
          BotDecide(price, atr_val, signal)
  /\ UNCHANGED <<store, last_write, market, venue_pos, entries, closeReqs, closers, acts, wrote>>

\* lines 184-185: state['closing'] = True; set_state(state)
BotSetClosing ==
  /\ pc["cycle"] = "set_closing"
  /\ state' = [state EXCEPT !["cycle"].closing = TRUE]
  /\ set_state(state'["cycle"])
  /\ Wrote("cycle", "closing")
  /\ closers' = closers \cup {"cycle"}
  /\ Goto("cycle", "cancel")
  /\ UNCHANGED <<market, venue_pos, exch_size, entry, entries, closeReqs, acts>>

\* lines 188-194: cancel the resting protective orders; failures are logged
BotCancel ==
  /\ pc["cycle"] = "cancel"
  /\ IF state["cycle"].sl_order_id # NONE \/ state["cycle"].tp_order_id # NONE
     THEN Did("cycle", "cancel")
     ELSE UNCHANGED acts
  /\ Goto("cycle", "close_order")
  /\ Locals
  /\ UNCHANGED <<store, last_write, market, venue_pos, entry, entries, closeReqs, closers, wrote>>

\* line 195: side = 'sell' if is_long else 'buy'
BotCloseSide == IF state["cycle"].position_side = "long" THEN "sell" ELSE "buy"

\* lines 196-204: reduce-only market order of abs(exch_size); the venue
\* fails it, fills it, or takes it without effect when nothing is reducible
BotClose ==
  /\ pc["cycle"] = "close_order"
  /\ Did("cycle", "close")
  /\ closeReqs' = Min(closeReqs + 1, MaxCloseReqs)
  /\ \/ /\ Finish("cycle", "close_failed")
        /\ UNCHANGED venue_pos
     \/ /\ Reducible(venue_pos, BotCloseSide, Abs(exch_size["cycle"]))
        /\ venue_pos' = Reduced(venue_pos, BotCloseSide, Abs(exch_size["cycle"]))
        /\ Goto("cycle", "reset")
        /\ Locals
     \/ /\ ~Reducible(venue_pos, BotCloseSide, Abs(exch_size["cycle"]))
        /\ Abs(exch_size["cycle"]) > 0
        /\ UNCHANGED venue_pos
        /\ Goto("cycle", "reset")
        /\ Locals
     \/ /\ ~Reducible(venue_pos, BotCloseSide, Abs(exch_size["cycle"]))
        /\ Finish("cycle", "close_rejected")
        /\ UNCHANGED venue_pos
  /\ UNCHANGED <<store, last_write, market, entry, entries, closers, wrote>>

\* line 200: reset_state() after the close order was placed
BotReset ==
  /\ pc["cycle"] = "reset"
  /\ reset_state
  /\ Wrote("cycle", "reset_close")
  /\ Finish("cycle", "closed")
  /\ UNCHANGED <<market, venue_pos, entry, entries, closeReqs, closers, acts>>

\* lines 206-211: persist the ratcheted stop on the hold path
BotHold ==
  /\ pc["cycle"] = "hold"
  /\ set_state(state["cycle"])
  /\ Wrote("cycle", "hold")
  /\ Finish("cycle", "hold")
  /\ UNCHANGED <<market, venue_pos, entry, entries, closeReqs, closers, acts>>

\* faulty variant of BotEntryOrder: a failed entry order is not noticed and
\* the tick goes on to the protective orders
BotEntryOrder_IgnoresFailure ==
  /\ pc["cycle"] = "entry_order"
  /\ Did("cycle", "entry")
  /\ \/ UNCHANGED <<venue_pos, entries, closeReqs, closers>>
     \/ /\ venue_pos' = IF entry.pos_side = "long"
                        THEN venue_pos + entry.amount
                        ELSE venue_pos - entry.amount
        /\ entries' = entries + 1
        /\ closeReqs' = 0
        /\ closers' = {}
  /\ Goto("cycle", "protect")
  /\ Locals
  /\ UNCHANGED <<store, last_write, market, wrote, entry>>

\* line 243: the entry market order
BotEntryOrder ==
  /\ pc["cycle"] = "entry_order"
  /\ Did("cycle", "entry")
  /\ \/ /\ Finish("cycle", "entry_error")
        /\ entry' = NoEntry
        /\ UNCHANGED <<venue_pos, entries, closeReqs, closers>>
     \/ /\ venue_pos' = IF entry.pos_side = "long"
                        THEN venue_pos + entry.amount
                        ELSE venue_pos - entry.amount
        /\ entries' = entries + 1
        /\ closeReqs' = 0
        /\ closers' = {}
        /\ Goto("cycle", "protect")
        /\ Locals
        /\ UNCHANGED entry
  /\ UNCHANGED <<store, last_write, market, wrote>>

\* lines 253-274: the resting stop and take-profit orders
BotProtect ==
  /\ pc["cycle"] = "protect"
  /\ Did("cycle", "protect")
  /\ \/ /\ Finish("cycle", "entry_error")
        /\ entry' = NoEntry
     \/ /\ Goto("cycle", "entry_persist")
        /\ Locals
        /\ UNCHANGED entry
  /\ UNCHANGED <<store, last_write, market, venue_pos, entries, closeReqs, closers, wrote>>

\* lines 275-292: set_state(new_state)
BotEntryPersist ==
  /\ pc["cycle"] = "entry_persist"
  /\ set_state(NewState(market, entry))
  /\ Wrote("cycle", "entry")
  /\ entry' = NoEntry
  /\ Finish("cycle", "entered")
  /\ UNCHANGED <<market, venue_pos, entries, closeReqs, closers, acts>>

\* faulty variant of TsExit: the poller also closes on the profit target
TsExit_WithTarget(s, price, atr_fresh) ==
  LET atr_at_entry == IF s.atr_at_entry = NONE THEN atr_fresh
                      ELSE s.atr_at_entry
      is_long == s.position_side = "long"
      trail_dist == TrailDist(atr_at_entry, price)
      highest == IF is_long /\ (s.highest = NONE \/ price > s.highest)
                 THEN price ELSE s.highest
      lowest == IF ~is_long /\ (s.lowest = NONE \/ price < s.lowest)
                THEN price ELSE s.lowest
      new_trailing_stop == IF is_long THEN highest - trail_dist
                           ELSE lowest + trail_dist
      tsl == IF is_long
             THEN IF s.trailing_stop_level = NONE
                     \/ new_trailing_stop > s.trailing_stop_level
                  THEN new_trailing_stop ELSE s.trailing_stop_level
             ELSE IF s.trailing_stop_level = NONE
                     \/ new_trailing_stop < s.trailing_stop_level
                  THEN new_trailing_stop ELSE s.trailing_stop_level
      close_reason ==
        IF is_long
        THEN IF price <= tsl THEN "trailing"
             ELSE IF price >= s.target_price THEN "target" ELSE "none"
        ELSE IF price >= tsl THEN "trailing"
             ELSE IF price <= s.target_price THEN "target" ELSE "none"
  IN  [highest |-> highest, lowest |-> lowest, trailing_stop_level |-> tsl,
       close_reason |-> close_reason]

\* faulty variant of TsExit: the poller does not move the running extremum
TsExit_StaleExtremum(s, price, atr_fresh) ==
  LET atr_at_entry == IF s.atr_at_entry = NONE THEN atr_fresh
                      ELSE s.atr_at_entry
      is_long == s.position_side = "long"
      trail_dist == TrailDist(atr_at_entry, price)
      highest == s.highest
      lowest == s.lowest
      new_trailing_stop == IF is_long THEN highest - trail_dist
                           ELSE lowest + trail_dist
      tsl == IF is_long
             THEN IF s.trailing_stop_level = NONE
                     \/ new_trailing_stop > s.trailing_stop_level
                  THEN new_trailing_stop ELSE s.trailing_stop_level
             ELSE IF s.trailing_stop_level = NONE
                     \/ new_trailing_stop < s.trailing_stop_level
                  THEN new_trailing_stop ELSE s.trailing_stop_level
      close_reason ==
        IF is_long
        THEN IF price <= tsl THEN "trailing" ELSE "none"
        ELSE IF price >= tsl THEN "trailing" ELSE "none"
  IN  [highest |-> highest, lowest |-> lowest, trailing_stop_level |-> tsl,
       close_reason |-> close_reason]

\* ------------------------------------------------- exit decision, poller
\* trailing_stop_checker lines 318-346: trailing stop only, no target
TsExit(s, price, atr_fresh) ==
  LET atr_at_entry == IF s.atr_at_entry = NONE THEN atr_fresh
                      ELSE s.atr_at_entry
      is_long == s.position_side = "long"
      trail_dist == TrailDist(atr_at_entry, price)
      highest == IF is_long /\ (s.highest = NONE \/ price > s.highest)
                 THEN price ELSE s.highest
      lowest == IF ~is_long /\ (s.lowest = NONE \/ price < s.lowest)
                THEN price ELSE s.lowest
      new_trailing_stop == IF is_long THEN highest - trail_dist
                           ELSE lowest + trail_dist
      tsl == IF is_long
             THEN IF s.trailing_stop_level = NONE
                     \/ new_trailing_stop > s.trailing_stop_level
                  THEN new_trailing_stop ELSE s.trailing_stop_level
             ELSE IF s.trailing_stop_level = NONE
                     \/ new_trailing_stop < s.trailing_stop_level
                  THEN new_trailing_stop ELSE s.trailing_stop_level
      close_reason ==
        IF is_long
        THEN IF price <= tsl THEN "trailing" ELSE "none"
        ELSE IF price >= tsl THEN "trailing" ELSE "none"
  IN  [highest |-> highest, lowest |-> lowest, trailing_stop_level |-> tsl,
       close_reason |-> close_reason]

\* lines 377-379: the record written on the hold path
TsHoldState(s, x) ==
  [s EXCEPT !.highest = x.highest, !.lowest = x.lowest,
            !.trailing_stop_level = x.trailing_stop_level]

\* faulty variant of TsStart: the poller goes on to the ticker whatever the
\* record says
TsStart_NoCheck ==
  /\ pc["poller"] = "idle"
  /\ acts' = [acts EXCEPT !["poller"] = {}]
  /\ wrote' = [wrote EXCEPT !["poller"] = FALSE]
  /\ state' = [state EXCEPT !["poller"] = get_state]
  /\ pc' = [pc EXCEPT !["poller"] = "ticker"]
  /\ out' = [out EXCEPT !["poller"] = "running"]
  /\ UNCHANGED <<hit, exch_size>>
  /\ UNCHANGED <<store, last_write, market, venue_pos, entry, entries, closeReqs, closers>>

\* ------------------------------------------------ Fast Stop Poller steps
\* lines 313-315: read the record; no-op when inactive or closing
TsStart ==
  /\ pc["poller"] = "idle"
  /\ acts' = [acts EXCEPT !["poller"] = {}]
  /\ wrote' = [wrote EXCEPT !["poller"] = FALSE]
  /\ IF ~get_state.active_trade \/ get_state.closing
     THEN Finish("poller", IF get_state.closing THEN "noop_closing"
                           ELSE "noop_inactive")
     ELSE /\ state' = [state EXCEPT !["poller"] = get_state]
          /\ pc' = [pc EXCEPT !["poller"] = "ticker"]
          /\ out' = [out EXCEPT !["poller"] = "running"]
          /\ UNCHANGED hit
          /\ UNCHANGED exch_size
  /\ UNCHANGED <<store, last_write, market, venue_pos, entry, entries, closeReqs, closers>>

\* lines 316-346: ticker price, then the trailing-stop decision
TsDecide(price, atr_fresh) ==
  IF TsExit(state["poller"], price, atr_fresh).close_reason # "none"
  THEN /\ Decided("poller", "set_closing", price,
                  TsExit(state["poller"], price, atr_fresh).close_reason)
       /\ Locals
  ELSE /\ Decided("poller", "hold", price, "none")
       /\ state' = [state EXCEPT !["poller"] =
             TsHoldState(@, TsExit(@, price, atr_fresh))]
       /\ UNCHANGED exch_size

TsTicker ==
  /\ pc["poller"] = "ticker"
  /\ \/ Finish("poller", "error")
     \/ \E price \in market.prices, atr_fresh \in Atrs : TsDecide(price, atr_fresh)
  /\ UNCHANGED <<store, last_write, market, venue_pos, entry, entries, closeReqs, closers,
                 acts, wrote>>

\* faulty variant of TsSetClosing: the flag is set in the local record only
\* and the cancels go out before anything is persisted
TsSetClosing_NoPersist ==
  /\ pc["poller"] = "set_closing"
  /\ state' = [state EXCEPT !["poller"].closing = TRUE]
  /\ closers' = closers \cup {"poller"}
  /\ Goto("poller", "cancel")
  /\ UNCHANGED <<store, last_write, wrote, market, venue_pos, exch_size,
                 entry, entries, closeReqs, acts>>

\* lines 349-350: state['closing'] = True; set_state(state)
TsSetClosing ==
  /\ pc["poller"] = "set_closing"
  /\ state' = [state EXCEPT !["poller"].closing = TRUE]
  /\ set_state(state'["poller"])
  /\ Wrote("poller", "closing")
  /\ closers' = closers \cup {"poller"}
  /\ Goto("poller", "cancel")
  /\ UNCHANGED <<market, venue_pos, exch_size, entry, entries, closeReqs, acts>>

\* lines 353-359: cancel the resting protective orders; failures are logged
TsCancel ==
  /\ pc["poller"] = "cancel"
  /\ IF state["poller"].sl_order_id # NONE \/ state["poller"].tp_order_id # NONE
     THEN Did("poller", "cancel")
     ELSE UNCHANGED acts
  /\ Goto("poller", "fetch_positions")
  /\ Locals
  /\ UNCHANGED <<store, last_write, market, venue_pos, entry, entries, closeReqs, closers, wrote>>

\* lines 363-369: fetch the venue position; close only when it is non-zero
TsFetchPositions ==
  /\ pc["poller"] = "fetch_positions"
  /\ \/ Finish("poller", "close_failed")
     \/ /\ exch_size' = [exch_size EXCEPT !["poller"] = Abs(venue_pos)]
        /\ UNCHANGED state
        /\ IF Abs(venue_pos) > 0
           THEN Goto("poller", "close_order")
           ELSE Goto("poller", "reset")
  /\ UNCHANGED <<store, last_write, market, venue_pos, entry, entries, closeReqs, closers,
                 acts, wrote>>

\* line 360: side = 'sell' if is_long else 'buy'
TsCloseSide == IF state["poller"].position_side = "long" THEN "sell" ELSE "buy"

\* lines 370-375: reduce-only market order of the fetched size; the venue
\* fails it, fills it, or takes it without effect when nothing is reducible
TsClose ==
  /\ pc["poller"] = "close_order"
  /\ Did("poller", "close")
  /\ closeReqs' = Min(closeReqs + 1, MaxCloseReqs)
  /\ \/ /\ Finish("poller", "close_failed")
        /\ UNCHANGED venue_pos
     \/ /\ Reducible(venue_pos, TsCloseSide, exch_size["poller"])
        /\ venue_pos' = Reduced(venue_pos, TsCloseSide, exch_size["poller"])
        /\ Goto("poller", "reset")
        /\ Locals
     \/ /\ ~Reducible(venue_pos, TsCloseSide, exch_size["poller"])
        /\ UNCHANGED venue_pos
        /\ Goto("poller", "reset")
        /\ Locals
     \/ /\ ~Reducible(venue_pos, TsCloseSide, exch_size["poller"])
        /\ Finish("poller", "close_rejected")
        /\ UNCHANGED venue_pos
  /\ UNCHANGED <<store, last_write, market, entry, entries, closers, wrote>>

\* line 372: reset_state()
TsReset ==
  /\ pc["poller"] = "reset"
  /\ reset_state
  /\ Wrote("poller", "reset_close")
  /\ Finish("poller", "closed")
  /\ UNCHANGED <<market, venue_pos, entry, entries, closeReqs, closers, acts>>

\* lines 377-380: persist the ratcheted stop on the hold path
TsHold ==
  /\ pc["poller"] = "hold"
  /\ set_state(state["poller"])
  /\ Wrote("poller", "hold")
  /\ Finish("poller", "hold")
  /\ UNCHANGED <<market, venue_pos, entry, entries, closeReqs, closers, acts>>

\* ------------------------------------------------------------ the venue
\* A resting reduce-only stop or take-profit order triggers at the venue,
\* or the operator closes the position by hand: the venue position is flat.
VenueFlat ==
  /\ venue_pos # 0
  /\ venue_pos' = 0
  /\ UNCHANGED <<store, last_write, market, pc, state, exch_size, entry, entries,
                 closeReqs, closers, acts, wrote, out, hit>>

Init ==
  /\ store = InactiveState
  /\ market \in Markets
  /\ venue_pos \in StartPositions
  /\ pc = [d \in Drivers |-> "idle"]
  /\ state = [d \in Drivers |-> InactiveState]
  /\ exch_size = [d \in Drivers |-> 0]
  /\ entry = NoEntry
  /\ entries = 0
  /\ closeReqs = 0
  /\ closers = {}
  /\ last_write = "init"
  /\ acts = [d \in Drivers |-> {}]
  /\ wrote = [d \in Drivers |-> FALSE]
  /\ out = [d \in Drivers |-> "none"]
  /\ hit = [d \in Drivers |-> NoHit]

Next ==
  \/ BotStart \/ BotFetchPositions \/ BotReconReset \/ BotReconGet
  \/ BotCandles \/ BotSetClosing \/ BotCancel \/ BotClose \/ BotReset
  \/ BotHold \/ BotEntryOrder \/ BotProtect \/ BotEntryPersist
  \/ TsStart \/ TsTicker \/ TsSetClosing \/ TsCancel \/ TsFetchPositions
  \/ TsClose \/ TsReset \/ TsHold
  \/ VenueFlat

Spec == Init /\ [][Next]_vars

\* ---------------------------------------------------------------- claims
Idle == \A d \in Drivers : pc[d] = "idle"

\* C1: across all interleavings of bot_logic and trailing_stop_checker, at
\* most one close market order is requested for one open position.
C1_AtMostOneClose == closeReqs <= 1

\* C2: the persisted trailing_stop_level of an active position never moves
\* against the position between two successive persisted values: it never
\* decreases for a long and never increases for a short.
C2_TrailingNeverRegresses ==
  [][(/\ store.active_trade
      /\ store'.active_trade
      /\ last_write' # "entry")
     => /\ store.position_side = "long"
           => store'.trailing_stop_level >= store.trailing_stop_level
        /\ store.position_side = "short"
           => store'.trailing_stop_level <= store.trailing_stop_level]_vars

\* C3: after a driver reset the record following a successful close, the
\* record stays inactive until the Strategy Cycle persists a new entry.
C3_StaysInactiveUntilEntry ==
  [][(last_write = "reset_close" /\ store'.active_trade)
     => last_write' = "entry"]_vars

\* C4: when the close market order of a driver fails, the tick ends with the
\* persisted record active, closing=true and every position field as the
\* driver read it.
C4_CloseFailureKeepsClosing ==
  [][\A d \in Drivers :
       (/\ pc[d] # "idle"
        /\ out'[d] \in {"close_failed", "close_rejected"})
       => /\ store'.active_trade
          /\ store'.closing
          /\ store' = state[d]]_vars

\* C5: when a failed close has left the record active with closing=true and
\* no close is in flight, the next tick of either driver does not return at
\* once: it goes on to retry the close.
C5_StuckCloseIsRetried ==
  [][(store.active_trade /\ store.closing /\ Idle)
     => \A d \in Drivers : out'[d] # out[d] => pc'[d] # "idle"]_vars

\* C6: when both drivers initiated a close of the same position and the
\* venue rejected or ignored the second reduce-only order because the
\* position was already flat, then once both ticks have finished the
\* persisted record is the inactive record.
C6_SecondCloseHarmless ==
  (/\ Idle
   /\ closers = Drivers
   /\ venue_pos = 0
   /\ \A d \in Drivers : out[d] \in {"closed", "close_rejected"}
   /\ \E d \in Drivers : out[d] = "closed")
  => store = InactiveState

\* C7: once closing=true is persisted for an active record, no later write
\* sets closing back to false while the record stays active.
C7_ClosingOneWay ==
  [][(/\ store.active_trade
      /\ store.closing
      /\ store'.active_trade
      /\ last_write' # "entry")
     => store'.closing]_vars

\* C8: a Strategy Cycle tick whose entry market order was accepted ends with
\* the record persisted as active with side, entry price, stop, target,
\* volatility at entry and trailing stop set.
C8_EntryAlwaysPersisted ==
  [][(pc["cycle"] \in {"protect", "entry_persist"} /\ pc'["cycle"] = "idle")
     => /\ store'.active_trade
        /\ store'.position_side \in {"long", "short"}
        /\ store'.entry_price # NONE
        /\ store'.stop_loss_price # NONE
        /\ store'.target_price # NONE
        /\ store'.atr_at_entry # NONE
        /\ store'.trailing_stop_level # NONE]_vars

\* C9: when the Strategy Cycle finds the local record inactive while the
\* venue reports a non-zero position, the tick ends there: it has submitted
\* no order, cancelled nothing and written nothing to the record.
C9_ForeignPositionUntouched ==
  [][(/\ pc["cycle"] = "fetch_positions"
      /\ pc'["cycle"] # "fetch_positions"
      /\ out'["cycle"] # "error"
      /\ ~state["cycle"].active_trade
      /\ venue_pos # 0)
     => /\ pc'["cycle"] = "idle"
        /\ acts'["cycle"] = {}
        /\ ~wrote'["cycle"]
        /\ store' = store
        /\ venue_pos' = venue_pos]_vars

C9_Witness ==
  /\ out["cycle"] = "manual"
  /\ pc["cycle"] = "idle"
  /\ ~store.active_trade
  /\ venue_pos # 0
  /\ acts["cycle"] = {}

\* C10: when the Strategy Cycle, having read closing=false, finds the local
\* record active while the venue reports a zero position, its next step
\* resets the record to the inactive record, and the tick has submitted no
\* close order up to and including the reset.
C10_ExternalCloseResets ==
  [][/\ (/\ pc["cycle"] = "fetch_positions"
         /\ pc'["cycle"] # "fetch_positions"
         /\ out'["cycle"] # "error"
         /\ state["cycle"].active_trade
         /\ venue_pos = 0)
        => pc'["cycle"] = "recon_reset"
     /\ (pc["cycle"] = "recon_reset" /\ pc'["cycle"] # "recon_reset")
        => /\ store' = InactiveState
           /\ "close" \notin acts'["cycle"]
           /\ closeReqs' = closeReqs
           /\ venue_pos' = venue_pos]_vars

C10_Witness ==
  /\ pc["cycle"] = "recon_get"
  /\ state["cycle"].active_trade
  /\ ~state["cycle"].closing
  /\ exch_size["cycle"] = 0
  /\ store = InactiveState
  /\ last_write = "reset_recon"

\* C11: an entry whose rounded quantity is below the minimum quantity, or
\* whose rounded quantity times price is below the minimum notional, is
\* rejected locally.  Every entry order the cycle sends carries a quantity
\* that meets both minimums, and the tick that rejects an entry issues no
\* venue order and the rejection leaves the record as it was.
C11_SmallEntryRejected ==
  [][/\ ("entry" \notin acts["cycle"] /\ "entry" \in acts'["cycle"])
        => /\ entry.amount >= market.min_amount * Pow10(amount_decimals(market))
           /\ entry.amount * entry.price
                >= market.min_notional * Pow10(amount_decimals(market)) * Unit
     /\ (pc["cycle"] = "candles" /\ out'["cycle"] = "too_small"
            /\ pc'["cycle"] = "idle")
        => /\ acts'["cycle"] = {}
           /\ wrote' = wrote /\ last_write' = last_write
           /\ store' = store
           /\ venue_pos' = venue_pos]_vars

\* the notional case: one unit at 1000 is worth less than the 1100 minimum
C11_Witness ==
  /\ out["cycle"] = "too_small"
  /\ pc["cycle"] = "idle"
  /\ market.min_notional = 1100
  /\ ~store.active_trade
  /\ venue_pos = 0
  /\ entries = 0

\* C12: when the entry market order fails (the venue takes no position),
\* the tick ends there: no protective order is placed, no record is
\* written, and the store and the venue position are left as they were.
C12_FailedEntryLeavesFlat ==
  [][(/\ pc["cycle"] = "entry_order"
      /\ pc'["cycle"] # "entry_order"
      /\ entries' = entries)
     => /\ pc'["cycle"] = "idle"
        /\ "protect" \notin acts'["cycle"]
        /\ wrote' = wrote /\ last_write' = last_write
        /\ store' = store
        /\ venue_pos' = venue_pos]_vars

C12_Witness ==
  /\ out["cycle"] = "entry_error"
  /\ pc["cycle"] = "idle"
  /\ acts["cycle"] = {"entry"}
  /\ ~wrote["cycle"]
  /\ entries = 0
  /\ ~store.active_trade

\* C13: a position is opened or enlarged only by the Strategy Cycle's entry
\* order, and that order is sent only in a tick whose local record is
\* inactive and whose venue position read is zero; the Fast Stop Poller
\* never sends an entry order and never enlarges the venue position.
C13_EntryOnlyWhenFlat ==
  [][/\ (\/ "entry" \notin acts["cycle"] /\ "entry" \in acts'["cycle"]
         \/ Abs(venue_pos') > Abs(venue_pos)
         \/ entries' > entries)
        => /\ pc["cycle"] = "entry_order"
           /\ "entry" \in acts'["cycle"]
           /\ ~state["cycle"].active_trade
           /\ exch_size["cycle"] = 0
     /\ "entry" \notin acts'["poller"]
     /\ pc'["poller"] # pc["poller"] => Abs(venue_pos') <= Abs(venue_pos)]_vars

\* the cycle is about to send the entry order with a flat local view
C13_Witness ==
  /\ pc["cycle"] = "protect"
  /\ "entry" \in acts["cycle"]
  /\ ~state["cycle"].active_trade
  /\ exch_size["cycle"] = 0
  /\ venue_pos # 0
  /\ entries = 1

\* The end-to-end scenario of C14: a long entered at 100 with ATR 1.0.
ScenarioEntry(s) ==
  /\ s.active_trade
  /\ s.position_side = "long"
  /\ s.entry_price = 1000000
  /\ s.atr_at_entry = 10000
  /\ s.stop_loss_price = 989000
  /\ s.target_price = 1010000

\* driver d's tick takes its exit decision on price p in this step
Observes(d, p) ==
  /\ pc[d] = IF d = "cycle" THEN "candles" ELSE "ticker"
  /\ hit'[d].price = p

\* the entry of the scenario persists stop 98.9, target 101.0, trailing 98.9
ScenarioEntryStep ==
  (/\ pc["cycle"] = "entry_persist"
   /\ pc'["cycle"] = "idle"
   /\ entry.price = 1000000 /\ entry.atr_val = 10000 /\ entry.pos_side = "long")
  => /\ ScenarioEntry(store')
     /\ store'.trailing_stop_level = 989000
     /\ store'.highest = 1000000

\* a tick of d that read trailing stop 103.9 and observes 103.8 exits with
\* reason trailing stop, and its reset leaves the record flat
ScenarioExitStep(d) ==
  /\ (/\ Observes(d, 1038000)
      /\ ScenarioEntry(state[d])
      /\ state[d].trailing_stop_level = 1039000)
     => /\ pc'[d] = "set_closing"
        /\ hit'[d].reason = "trailing"
  /\ (/\ pc[d] = "reset"
      /\ pc'[d] = "idle"
      /\ ScenarioEntry(state[d])
      /\ hit[d] = [price |-> 1038000, reason |-> "trailing"])
     => /\ store' = InactiveState
        /\ out'[d] = "closed"

\* a tick of d that read the fresh scenario record and observes 105 moves
\* the trailing stop to 103.9 and keeps the position open
ScenarioHoldStep(d) ==
  (/\ Observes(d, 1050000)
   /\ ScenarioEntry(state[d])
   /\ state[d].trailing_stop_level = 989000)
  => /\ pc'[d] = "hold"
     /\ state'[d].trailing_stop_level = 1039000
     /\ state'[d].highest = 1050000

\* C14 as stated: entry at 100 sets stop 98.9, target 101.0, trailing stop
\* 98.9; whichever driver observes 105 recalculates the trailing stop to
\* 103.9 and leaves the position open; observing 103.8 then triggers the
\* exit with reason trailing stop and the record is reset to flat.
C14_ScenarioAsStated ==
  [][/\ ScenarioEntryStep
     /\ \A d \in Drivers : ScenarioHoldStep(d)
     /\ \A d \in Drivers : ScenarioExitStep(d)]_vars

\* C14 amended: the same scenario, where 105 is observed by the Fast Stop
\* Poller; a Strategy Cycle tick observing 105 finds the price at or above
\* the target 101.0 and closes the position with reason profit target.
C14_Scenario ==
  [][/\ ScenarioEntryStep
     /\ ScenarioHoldStep("poller")
     /\ (/\ Observes("cycle", 1050000)
         /\ ScenarioEntry(state["cycle"])
         /\ state["cycle"].trailing_stop_level = 989000)
        => /\ pc'["cycle"] = "set_closing"
           /\ hit'["cycle"].reason = "target"
     /\ \A d \in Drivers : ScenarioExitStep(d)]_vars

\* the poller has moved the stop to 103.9, and the cycle, observing 103.8,
\* has closed the position on the trailing stop
C14_Witness ==
  /\ pc["cycle"] = "reset"
  /\ hit["cycle"] = [price |-> 1038000, reason |-> "trailing"]
  /\ ScenarioEntry(state["cycle"])
  /\ state["cycle"].trailing_stop_level = 1039000
  /\ state["cycle"].highest = 1050000
  /\ venue_pos = 0

\* level b is at least as good as level a for a position on `side`
NotWorse(side, a, b) == IF side = "long" THEN b >= a ELSE b <= a

\* C15: the trailing stop a tick computes is never worse than the stop the
\* tick read, whatever price it observes: not lower for a long, not higher
\* for a short; and the level the tick persists on the hold path is the
\* level it computed.
C15_TickNeverLoosensStop ==
  [][/\ (pc["cycle"] = "candles" /\ state["cycle"].active_trade)
        => /\ \A price \in market.prices, atr_val \in Atrs :
                NotWorse(state["cycle"].position_side,
                         state["cycle"].trailing_stop_level,
                         BotExit(state["cycle"], price,
                                 atr_val).trailing_stop_level)
           /\ pc'["cycle"] = "hold"
                => NotWorse(state["cycle"].position_side,
                            state["cycle"].trailing_stop_level,
                            state'["cycle"].trailing_stop_level)
     /\ pc["poller"] = "ticker"
        => /\ \A price \in market.prices, atr_fresh \in Atrs :
                NotWorse(state["poller"].position_side,
                         state["poller"].trailing_stop_level,
                         TsExit(state["poller"], price,
                                atr_fresh).trailing_stop_level)
           /\ pc'["poller"] = "hold"
                => NotWorse(state["poller"].position_side,
                            state["poller"].trailing_stop_level,
                            state'["poller"].trailing_stop_level)
     /\ \A d \in Drivers :
          (pc[d] = "hold" /\ pc'[d] = "idle")
          => store'.trailing_stop_level = state[d].trailing_stop_level]_vars

\* a short entered at 700 with stop 705.6: the cycle observes 702, the
\* candidate 700 + 0.008 * 702 is above 705.6, and the stop is kept
C15_Witness ==
  /\ pc["cycle"] = "hold"
  /\ hit["cycle"].price = 7020000
  /\ state["cycle"].position_side = "short"
  /\ state["cycle"].lowest = 7000000
  /\ state["cycle"].trailing_stop_level = 7056000

\* how a tick ends when one of its venue calls fails
FailureOutcomes == {"error", "entry_error", "close_failed", "close_rejected"}

\* C16: a failed venue call ends the tick of the driver that made it and
\* nothing more: the driver is back at its loop and its next tick can start,
\* and the other driver's tick is where it was.
C16_FailureAbortsTickOnly ==
  /\ [](/\ out["cycle"] \in FailureOutcomes => ENABLED BotStart
        /\ out["poller"] \in FailureOutcomes => ENABLED TsStart)
  /\ [][\A d \in Drivers :
          (pc[d] # "idle" /\ out'[d] \in FailureOutcomes)
          => /\ pc'[d] = "idle"
             /\ \A e \in Drivers \ {d} :
                  /\ pc'[e] = pc[e]
                  /\ state'[e] = state[e]
                  /\ out'[e] = out[e]]_vars

\* the cycle's tick has just failed on a venue call while the poller is in
\* the middle of a tick over an open position
C16_Witness ==
  /\ out["cycle"] = "error"
  /\ pc["cycle"] = "idle"
  /\ pc["poller"] = "hold"
  /\ state["poller"].active_trade
  /\ venue_pos # 0

\* C17: in both drivers the tick that triggers an exit persists the record
\* with closing=true first: its set_state step stores closing=true before any
\* venue call of the close path, and every cancel and every close market
\* order of the tick is issued after that write.
C17_ClosingPersistedFirst ==
  [][\A d \in Drivers :
       /\ (pc[d] = "set_closing" /\ pc'[d] # "set_closing")
          => /\ store'.closing
             /\ store' = state'[d]
             /\ wrote'[d]
             /\ acts'[d] \cap {"cancel", "close"} = {}
       /\ (\E a \in {"cancel", "close"} : a \notin acts[d] /\ a \in acts'[d])
          => /\ wrote[d]
             /\ state[d].closing
             /\ pc[d] \in {"cancel", "close_order"}]_vars

\* the poller has persisted closing=true and then cancelled the resting
\* orders; its close order is next
C17_Witness ==
  /\ pc["poller"] = "fetch_positions"
  /\ acts["poller"] = {"cancel"}
  /\ wrote["poller"]
  /\ state["poller"].closing
  /\ store.closing
  /\ last_write = "closing"

\* driver d takes a step that shows in its tick history
Ticked(d) == <<out'[d], acts'[d], wrote'[d]>> # <<out[d], acts[d], wrote[d]>>

\* C18: a Strategy Cycle tick that reads closing=true skips the cycle: it
\* goes no further than the read, makes no venue call, does not reconcile
\* and writes nothing.
C18_CycleSkipsWhileClosing ==
  [][(pc["cycle"] = "idle" /\ store.closing)
     => /\ pc'["cycle"] = "idle"
        /\ Ticked("cycle")
           => /\ out'["cycle"] = "skip_closing"
              /\ acts'["cycle"] = {}
              /\ ~wrote'["cycle"]
              /\ store' = store
              /\ last_write' = last_write
              /\ venue_pos' = venue_pos]_vars

\* the cycle has skipped over a record the poller left closing
C18_Witness ==
  /\ out["cycle"] = "skip_closing"
  /\ pc["cycle"] = "idle"
  /\ store.active_trade
  /\ store.closing
  /\ closers = {"poller"}

\* C19: a Fast Stop Poller tick that reads an inactive record or a record
\* with closing=true is a no-op: no venue call and no write.
C19_PollerNoOp ==
  [][(pc["poller"] = "idle" /\ (~store.active_trade \/ store.closing))
     => /\ pc'["poller"] = "idle"
        /\ Ticked("poller")
           => /\ out'["poller"] \in {"noop_inactive", "noop_closing"}
              /\ acts'["poller"] = {}
              /\ ~wrote'["poller"]
              /\ store' = store
              /\ last_write' = last_write
              /\ venue_pos' = venue_pos]_vars

\* the poller has done nothing over a record the cycle left closing
C19_Witness ==
  /\ out["poller"] = "noop_closing"
  /\ pc["poller"] = "idle"
  /\ store.active_trade
  /\ store.closing
  /\ closers = {"cycle"}

\* price p has crossed stop level l against a position on `side`
StopCrossed(side, p, l) == IF side = "long" THEN p <= l ELSE p >= l
\* price p has reached target t in favour of a position on `side`
TargetReached(side, p, t) == IF side = "long" THEN p >= t ELSE p <= t

\* C20: the Strategy Cycle evaluates the trailing-stop condition before the
\* profit target.  When the observed price has crossed the stop the tick
\* read and has also reached the target, the exit is attributed to the
\* trailing stop; an exit is attributed to the target only when the price
\* has not crossed the recalculated trailing stop.
C20_TrailingBeforeTarget ==
  [][(/\ pc["cycle"] = "candles"
      /\ state["cycle"].active_trade
      /\ hit'["cycle"].price # NONE)
     => LET s == state["cycle"]
            p == hit'["cycle"].price
            tsl == BotExit(s, p, s.atr_at_entry).trailing_stop_level
        IN  /\ (/\ StopCrossed(s.position_side, p, s.trailing_stop_level)
                /\ TargetReached(s.position_side, p, s.target_price))
               => /\ hit'["cycle"].reason = "trailing"
                  /\ pc'["cycle"] = "set_closing"
            /\ hit'["cycle"].reason = "target"
               => /\ TargetReached(s.position_side, p, s.target_price)
                  /\ ~StopCrossed(s.position_side, p, tsl)
            /\ hit'["cycle"].reason = "trailing"
               => StopCrossed(s.position_side, p, tsl)]_vars

\* the cycle read stop 103.9 and target 101.0 and observes 103.8: both
\* conditions hold and the exit is logged as the trailing stop
C20_Witness ==
  /\ pc["cycle"] = "set_closing"
  /\ hit["cycle"].reason = "trailing"
  /\ state["cycle"].position_side = "long"
  /\ hit["cycle"].price <= state["cycle"].trailing_stop_level
  /\ hit["cycle"].price >= state["cycle"].target_price

\* the stop level after the ratchet, for a record s and a price p, written
\* out from the running extremum and the trail distance
UpdatedStop(s, p) ==
  IF s.position_side = "long"
  THEN Max(s.trailing_stop_level,
           Max(s.highest, p) - TrailDist(s.atr_at_entry, p))
  ELSE Min(s.trailing_stop_level,
           Min(s.lowest, p) + TrailDist(s.atr_at_entry, p))

\* C21: the Fast Stop Poller closes only on the trailing stop.  A poller
\* tick that goes on to close has observed a price that crossed the updated
\* trailing stop against the position, and logs the trailing stop as the
\* reason; a price that reached the target without crossing the updated
\* stop leaves the poller on the hold path.
C21_PollerClosesOnlyOnTrailing ==
  [][/\ (pc["poller"] = "ticker" /\ hit'["poller"].price # NONE)
        => LET s == state["poller"]
               p == hit'["poller"].price
               crossed == StopCrossed(s.position_side, p, UpdatedStop(s, p))
           IN  /\ pc'["poller"] = "set_closing"
                  => crossed /\ hit'["poller"].reason = "trailing"
               /\ (TargetReached(s.position_side, p, s.target_price)
                   /\ ~crossed)
                  => /\ pc'["poller"] = "hold"
                     /\ hit'["poller"].reason = "none"
     /\ \A l \in {"set_closing", "cancel", "fetch_positions", "close_order",
                  "reset"} :
          pc'["poller"] = l => hit'["poller"].reason = "trailing"]_vars

\* the poller observes 105 on a long entered at 100 with target 101.0 and
\* holds
C21_Witness ==
  /\ pc["poller"] = "hold"
  /\ state["poller"].position_side = "long"
  /\ state["poller"].entry_price = 1000000
  /\ hit["poller"].price = 1050000
  /\ hit["poller"].price >= state["poller"].target_price
  /\ hit["poller"].reason = "none"
  /\ venue_pos > 0

\* the two exit computations agree on record s at price p: same running
\* extremum, same trailing stop level, same trailing-stop trigger
SameTrailing(s, p, atr) ==
  LET b == BotExit(s, p, atr)
      t == TsExit(s, p, atr)
  IN  /\ b.highest = t.highest
      /\ b.lowest = t.lowest
      /\ b.trailing_stop_level = t.trailing_stop_level
      /\ (b.close_reason = "trailing") <=> (t.close_reason = "trailing")

\* C22: both drivers compute the trailing stop identically.  On every
\* active record a driver has read, and for every price it may observe, the
\* cycle's exit check and the poller's check give the same extremum, level
\* and trailing-stop trigger; and the step each driver takes is the one the
\* other driver's computation prescribes for the trailing stop.
C22_SameTrailingComputation ==
  [][/\ \A d \in Drivers :
          (/\ pc[d] = IF d = "cycle" THEN "candles" ELSE "ticker"
           /\ state[d].active_trade)
          => \A p \in market.prices, atr \in Atrs :
               SameTrailing(state[d], p, atr)
     /\ (/\ pc["cycle"] = "candles"
         /\ state["cycle"].active_trade
         /\ hit'["cycle"].price # NONE)
        => LET t == TsExit(state["cycle"], hit'["cycle"].price,
                           state["cycle"].atr_at_entry)
           IN  /\ (hit'["cycle"].reason = "trailing")
                    <=> (t.close_reason = "trailing")
               /\ pc'["cycle"] = "hold"
                  => /\ state'["cycle"].highest = t.highest
                     /\ state'["cycle"].lowest = t.lowest
                     /\ state'["cycle"].trailing_stop_level
                          = t.trailing_stop_level
     /\ (pc["poller"] = "ticker" /\ hit'["poller"].price # NONE)
        => LET b == BotExit(state["poller"], hit'["poller"].price,
                            state["poller"].atr_at_entry)
           IN  /\ (hit'["poller"].reason = "trailing")
                    <=> (b.close_reason = "trailing")
               /\ pc'["poller"] = "hold"
                  => /\ state'["poller"].highest = b.highest
                     /\ state'["poller"].lowest = b.lowest
                     /\ state'["poller"].trailing_stop_level
                          = b.trailing_stop_level]_vars

\* the poller closes on the trailing stop 103.9 at 103.8, a price at which
\* the cycle's check reaches the same decision although the target 101.0
\* is reached as well
C22_Witness ==
  /\ pc["poller"] = "set_closing"
  /\ hit["poller"] = [price |-> 1038000, reason |-> "trailing"]
  /\ state["poller"].position_side = "long"
  /\ state["poller"].trailing_stop_level = 1039000
  /\ state["poller"].target_price = 1010000
  /\ BotExit(state["poller"], 1038000, 10000).close_reason = "trailing"

====
